---- MODULE Spec2Model ----
(***************************************************************************)
(* Model of the Orpheus streaming text-to-speech pipeline of               *)
(* realtime_phone_agents/tts/models/orpheus_runpod/model.py:               *)
(* the token source, the token-ID decoder, the frame buffer with its       *)
(* sliding window, the audio frame decoder and the thread-to-coroutine     *)
(* bridge of stream_tts.                                                   *)
(*                                                                         *)
(* Text is a sequence of one-character strings.  An optional value         *)
(* (Python's Optional[T]) is the empty sequence for None and <<v>> for v.   *)
(***************************************************************************)
EXTENDS Integers, Sequences, FiniteSets, TLC

\* ------------------------------------------------------------------ bounds
\* The most token IDs a session accepts, and the most response lines that
\* are read without a token being accepted.
MaxTokens == 42
MaxJunk == 2

\* ------------------------------------------------------- program constants
WindowSize == 28
Stride == 7
Threshold == 27
SlotsPerFrame == 7
IdBase == 10
SlotWidth == 4096
NumberStart == 14
SampleRate == 24000
BytesPerSample == 2

None == <<>>
Some(v) == <<v>>

\* ------------------------------------------------------------------- text
Whitespace == {" "}
Digits == {"0", "1", "2", "3", "4", "5", "6", "7", "8", "9"}
DigitVal ==
    "0" :> 0 @@ "1" :> 1 @@ "2" :> 2 @@ "3" :> 3 @@ "4" :> 4 @@
    "5" :> 5 @@ "6" :> 6 @@ "7" :> 7 @@ "8" :> 8 @@ "9" :> 9
DigitChar == <<"0", "1", "2", "3", "4", "5", "6", "7", "8", "9">>

CUSTOM_TOKEN_PREFIX ==
    <<"<", "c", "u", "s", "t", "o", "m", "_", "t", "o", "k", "e", "n", "_">>

RECURSIVE LStrip(_)
LStrip(s) == IF s # <<>> /\ Head(s) \in Whitespace THEN LStrip(Tail(s)) ELSE s

RECURSIVE RStrip(_)
RStrip(s) ==
    IF s # <<>> /\ s[Len(s)] \in Whitespace
    THEN RStrip(SubSeq(s, 1, Len(s) - 1))
    ELSE s

\* str.strip()
Strip(s) == RStrip(LStrip(s))

\* No test of the closing '>'.
EndsWith_Any(s, p) == TRUE

\* str.startswith / str.endswith
StartsWith(s, p) == Len(s) >= Len(p) /\ SubSeq(s, 1, Len(p)) = p
EndsWith(s, p) == Len(s) >= Len(p) /\ SubSeq(s, Len(s) - Len(p) + 1, Len(s)) = p

\* str.find in place of str.rfind: the first occurrence.
Rfind_First(s, p) ==
    LET hits == {i \in 0..(Len(s) - Len(p)) : SubSeq(s, i + 1, i + Len(p)) = p}
    IN  IF hits = {} THEN -1 ELSE CHOOSE i \in hits : \A j \in hits : i <= j

\* str.rfind: the 0-based index of the last occurrence of p in s, or -1.
Rfind(s, p) ==
    LET hits == {i \in 0..(Len(s) - Len(p)) : SubSeq(s, i + 1, i + Len(p)) = p}
    IN  IF hits = {} THEN -1 ELSE CHOOSE i \in hits : \A j \in hits : j <= i

RECURSIVE DigitsValue(_)
DigitsValue(s) ==
    IF s = <<>> THEN 0
    ELSE DigitsValue(SubSeq(s, 1, Len(s) - 1)) * 10 + DigitVal[s[Len(s)]]

IsUnderscore(c) == c = "_"
NotUnderscore(c) == c # "_"

\* The digit part of a Python integer literal: digits, with single
\* underscores allowed between digits only.
IsDigitPart(s) ==
    /\ s # <<>>
    /\ s[1] \in Digits
    /\ s[Len(s)] \in Digits
    /\ \A i \in 1..Len(s) : s[i] \in Digits \/ IsUnderscore(s[i])
    /\ \A i \in 1..(Len(s) - 1) : ~(IsUnderscore(s[i]) /\ IsUnderscore(s[i + 1]))

\* int(str): None stands for ValueError.
IntParse(s) ==
    LET t == Strip(s)
        signed == t # <<>> /\ t[1] \in {"+", "-"}
        body == IF signed THEN Tail(t) ELSE t
        mag == DigitsValue(SelectSeq(body, NotUnderscore))
    IN  IF ~IsDigitPart(body) THEN None
        ELSE IF signed /\ t[1] = "-" THEN Some(0 - mag)
        ELSE Some(mag)

RECURSIVE NatStr(_)
NatStr(n) ==
    IF n < 10 THEN <<DigitChar[n + 1]>>
    ELSE NatStr(n \div 10) \o <<DigitChar[(n % 10) + 1]>>

\* str(n)
Str(n) == IF n < 0 THEN <<"-">> \o NatStr(0 - n) ELSE NatStr(n)

\* "<custom_token_" + str(n) + ">"
Marker(n) == CUSTOM_TOKEN_PREFIX \o Str(n) \o <<">">>

\* --------------------------------------------------------- token-ID decoder
\* The offset correction taken with the position itself, not modulo 7.
TurnTokenIntoId_NoMod(token_string, index) ==
    LET s == Strip(token_string)
        last_token_start == Rfind(s, CUSTOM_TOKEN_PREFIX)
    IN  IF last_token_start = -1 THEN None
        ELSE
          LET last_token == SubSeq(s, last_token_start + 1, Len(s))
          IN  IF StartsWith(last_token, CUSTOM_TOKEN_PREFIX)
                 /\ EndsWith(last_token, <<">">>)
              THEN
                LET number_str ==
                        SubSeq(last_token, NumberStart + 1, Len(last_token) - 1)
                    n == IntParse(number_str)
                IN  IF n = None THEN None
                    ELSE Some(n[1] - IdBase - (index * SlotWidth))
              ELSE None

TurnTokenIntoId(token_string, index) ==
    LET s == Strip(token_string)
        last_token_start == Rfind(s, CUSTOM_TOKEN_PREFIX)
    IN  IF last_token_start = -1 THEN None
        ELSE
          LET last_token == SubSeq(s, last_token_start + 1, Len(s))
          IN  IF StartsWith(last_token, CUSTOM_TOKEN_PREFIX)
                 /\ EndsWith(last_token, <<">">>)
              THEN
                LET number_str ==
                        SubSeq(last_token, NumberStart + 1, Len(last_token) - 1)
                    n == IntParse(number_str)
                IN  IF n = None THEN None
                    ELSE Some(n[1] - IdBase - ((index % SlotsPerFrame) * SlotWidth))
              ELSE None

\* Only the empty text taken as blank.
IsBlank_EmptyOnly(t) == t = <<>>

\* Whether a text is empty or whitespace only: not text or not text.strip()
IsBlank(t) == t = <<>> \/ Strip(t) = <<>>

\* ------------------------------------------------------------ token source
\* One line of the streamed response, after line.decode, the "data: " test,
\* the [DONE] test and json.loads: "blank" is an empty line, "nodata" a line
\* without the "data: " prefix, "done" the line data: [DONE], "badjson" a
\* payload json.loads rejects, "nochoices" a payload without (or with empty)
\* choices, "json" a payload whose choices[0] carries text (possibly "").
Line(kind, text) == [kind |-> kind, text |-> text]

\* The numeral the endpoint sends for codec symbol `code` in slot `position`.
Numeral(position, code) == code + IdBase + ((position % SlotsPerFrame) * SlotWidth)

\* The codec symbol carried by the token accepted at `position`: all
\* different, so that a window's content tells where it was cut.
CodeAt(position) == position + 1

SkippedLines ==
    {Line("blank", <<>>), Line("nodata", <<>>), Line("badjson", <<>>),
     Line("nochoices", <<>>), Line("json", <<>>)}

\* Token fragments that decode to a strictly positive ID at `position`.
ValidTexts(position) ==
    {Marker(Numeral(position, CodeAt(position))),
     <<"h", "i">> \o Marker(3) \o Marker(Numeral(position, CodeAt(position)))}

\* Token fragments that decode to None, to zero or to a negative ID.
InvalidTexts(position) ==
    {<<"h", "i">>,
     CUSTOM_TOKEN_PREFIX \o Str(Numeral(position, CodeAt(position))),
     CUSTOM_TOKEN_PREFIX \o <<"x", ">">>,
     Marker(Numeral(position, 0)),
     Marker(3)}

\* A [DONE] line that does not end the stream.
IsDone_Never(line) == FALSE

\* if data_str == "[DONE]": break
IsDone(line) == line.kind = "done"

\* A payload json.loads rejects ends the generator with the exception.
LineRaises_BadJson(line) == line.kind \in {"notobject", "badjson"}

\* Whether the line makes _generate_tokens_sync raise: a payload that is
\* valid JSON but no object ("notobject", say data: 5) makes the test
\* "choices" in data raise TypeError; json.JSONDecodeError is caught.
LineRaises(line) == line.kind = "notobject"

\* _generate_tokens_sync, one line: the token it yields, if any.
LineToken(line) ==
    IF line.kind = "json" /\ line.text # <<>> THEN Some(line.text) ELSE None

\* ------------------------------------------------------------ frame buffer
\* token_id is None or token_id <= 0: the token is dropped.
Rejected(token_id) == token_id = None \/ token_id[1] <= 0

\* The trigger test with the threshold one too high, and without threshold.
ShouldEmit_Late(c) == c % Stride = 0 /\ c > Threshold + 1
ShouldEmit_NoThreshold(c) == c % Stride = 0

\* A window cut every 14 accepted tokens.
ShouldEmit_Stride14(c) == c % (2 * Stride) = 0 /\ c > Threshold

\* count % 7 == 0 and count > 27
ShouldEmit(c) == c % Stride = 0 /\ c > Threshold

\* buffer[:28] and buffer[-27:] in place of buffer[-28:].
LastN_Head(buf, n) == SubSeq(buf, 1, IF Len(buf) > n THEN n ELSE Len(buf))
LastN_Short(buf, n) ==
    SubSeq(buf, IF Len(buf) > n - 1 THEN Len(buf) - n + 2 ELSE 1, Len(buf))

\* buffer[-28:]
LastN(buf, n) == SubSeq(buf, IF Len(buf) > n THEN Len(buf) - n + 1 ELSE 1, Len(buf))

\* The trigger test reached by a rejected token too (no continue).
DecoderStep_TriggerOutside(buf, c, token_id) ==
    IF token_id = None \/ token_id[1] <= 0
    THEN [buffer |-> buf, count |-> c, emit |-> c % Stride = 0 /\ c > Threshold]
    ELSE [buffer |-> Append(buf, token_id[1]),
          count  |-> c + 1,
          emit   |-> (c + 1) % Stride = 0 /\ c + 1 > Threshold]

\* A buffer that keeps only its last 28 elements.
DecoderStep_Evict(buf, c, token_id) ==
    IF token_id = None \/ token_id[1] <= 0
    THEN [buffer |-> buf, count |-> c, emit |-> FALSE]
    ELSE [buffer |-> LastN(Append(buf, token_id[1]), WindowSize),
          count  |-> c + 1,
          emit   |-> (c + 1) % Stride = 0 /\ c + 1 > Threshold]

\* One iteration of the loop of _token_decoder_sync up to the trigger test:
\* the buffer and the count after it, and whether a window is cut.
DecoderStep(buf, c, token_id) ==
    IF Rejected(token_id)
    THEN [buffer |-> buf, count |-> c, emit |-> FALSE]
    ELSE [buffer |-> Append(buf, token_id[1]),
          count  |-> c + 1,
          emit   |-> ShouldEmit(c + 1)]

\* The offset of the token in the token stream passed as position.
DecoderIndex_Raw(c, offset) == offset

\* self._turn_token_into_id(token_text, count): the position passed, given
\* the accepted count and the number of tokens read before this one.
DecoderIndex(c, offset) == c

\* ------------------------------------------------------ audio frame decoder
\* What convert_to_audio does with a window: PCM bytes, zero bytes, an odd
\* number of bytes (np.frombuffer raises), None, or an exception.
CodecOutcomes == {"pcm", "empty", "odd", "none", "raise"}

\* _convert_buffer: the samples, or None when the codec returns None or
\* anything raises.
ConvertBuffer(multiframe, c, outcome) ==
    IF outcome \in {"none", "raise", "odd"} THEN None
    ELSE Some([count |-> c, size |-> IF outcome = "pcm" THEN Len(multiframe) ELSE 0])

\* Without the test of the size.
Emits_NotNone(audio) == audio # None

\* An exception of the codec that leaves _convert_buffer.
FrameFaultAborts_Propagates(outcome) == outcome \in {"raise", "odd"}

\* _convert_buffer: try ... except Exception ... return None: whether what
\* the codec does with a window ends the pipeline.
FrameFaultAborts(outcome) == FALSE

\* audio_samples is not None and audio_samples.size > 0
Emits(audio) == audio # None /\ audio[1].size > 0

\* ------------------------------------------------------------------ state
VARIABLES
    text,       \* the text of the call
    opts,       \* the options of the call (opts = options or self.options)
    posted,     \* the prompt sent by requests.post, None before any request
    wpc,        \* the worker thread: unstarted, request, stream, finally, done
    nlines,     \* response lines read by _generate_tokens_sync
    ntokens,    \* tokens yielded by _generate_tokens_sync
    buffer,     \* _token_decoder_sync: buffer
    count,      \* _token_decoder_sync: count
    lastId,     \* the token_id computed for the last token
    lastIndex,  \* the index passed to _turn_token_into_id for the last token
    windows,    \* the calls of _convert_buffer so far, in order
    produced,   \* the (sample_rate, chunk) pairs stream_tts_sync has yielded
    srcError,   \* the transport error of the token source, or "none"
    caughtAt,   \* the function whose except clause swallowed it, or "none"
    enq,        \* the items the worker has handed to run_coroutine_threadsafe
    ready,      \* the event loop: queue.put coroutines scheduled, not yet run
    queue,      \* stream_tts: the asyncio.Queue
    cpc,        \* the consumer (the body of stream_tts): init, get, done
    yielded,    \* the items stream_tts has yielded
    tokShape,   \* a call of _turn_token_into_id: how its argument was built
    tokText,    \* a call of _turn_token_into_id: token_string
    tokIndex,   \* a call of _turn_token_into_id: index
    tokResult,  \* a call of _turn_token_into_id: the value returned
    ttsOut,     \* what tts returned, None before it returns
    blockingOut, \* what tts_blocking returned, None before it returns
    tokPc,      \* a call of _turn_token_into_id: off, called, returned
    srcLines,   \* _generate_tokens_sync on its own: the lines of the response
    srcPos,     \* _generate_tokens_sync on its own: lines read
    srcOut,     \* _generate_tokens_sync on its own: tokens yielded
    srcPc,      \* _generate_tokens_sync on its own: off, run, exhausted, raised
    selfOptions, \* self.options of the model instance the calls share
    sOptions,   \* per call: the options argument, None or Some(options)
    sStartVoice, \* per call: the voice of its options when the call started
    sWpc,       \* per call: the worker thread
    sPos,       \* per call: tokens read from the call's response
    sBuf,       \* per call: buffer of _token_decoder_sync
    sCount,     \* per call: count of _token_decoder_sync
    sPosted,    \* per call: the prompt sent, None before the request
    sEnq,       \* per call: items handed to run_coroutine_threadsafe
    sReady,     \* the event loop the calls share: puts scheduled, not yet run
    sQueue,     \* per call: the asyncio.Queue
    sCpc,       \* per call: the consumer: idle, get, done, closed
    sYielded,   \* per call: the items stream_tts has yielded
    tgText,     \* TogetherTTS: the text of the call
    tgMode,     \* TogetherTTS: none, sync (stream_tts_sync), async (stream_tts)
    tgPc,       \* TogetherTTS: stream_tts_sync: idle, request, stream,
                \* finally (the worker's), ended
    tgPosted,   \* TogetherTTS: the input of the request sent, None before
    tgThread,   \* TogetherTTS: the worker thread has been started
    tgQueueMade, \* TogetherTTS: the asyncio.Queue has been created
    tgNrecv,    \* TogetherTTS: byte chunks received from iter_bytes
    tgRecv,     \* TogetherTTS: bytes received
    tgStart,    \* TogetherTTS: offset in the byte stream where pcm_buffer starts
    tgOut,      \* TogetherTTS: the items stream_tts_sync has yielded
    tgReady,    \* TogetherTTS: puts scheduled on the event loop, not yet run
    tgQueue,    \* TogetherTTS: the asyncio.Queue
    tgCpc,      \* TogetherTTS: the consumer of stream_tts: idle, get, done
    tgYielded,  \* TogetherTTS: the items stream_tts has yielded
    agLast,     \* FastRTCAgent: self._last_final_text, None while not set
    agFallback, \* FastRTCAgent: self._fallback_message
    agSeconds,  \* FastRTCAgent: self._sound_effect_seconds
    aPc,        \* per _process_audio invocation: idle, agent, tool, effect,
                \* final, speak, done, failed, closed
    aSteps,     \* per invocation: (step, data) items read from the agent
    aData,      \* per invocation: the data of the step being handled
    aFinal,     \* per invocation: final_text of _process_with_agent
    aChunks,    \* per invocation: chunks taken from the running synthesis
    aOut,       \* per invocation: the audio chunks _process_audio has yielded
    aResp       \* per invocation: final_response, None before it is read

vars ==
    <<text, opts, posted, wpc, nlines, ntokens, buffer, count, lastId,
      lastIndex, windows, produced, srcError, caughtAt, enq, ready, queue,
      cpc, yielded, ttsOut, blockingOut,
      tokShape, tokText, tokIndex, tokResult, tokPc,
      srcLines, srcPos, srcOut, srcPc,
      selfOptions, sOptions, sStartVoice, sWpc, sPos, sBuf, sCount, sPosted,
      sEnq, sReady, sQueue, sCpc, sYielded,
      tgText, tgMode, tgPc, tgPosted, tgThread, tgQueueMade, tgNrecv, tgRecv,
      tgStart, tgOut, tgReady, tgQueue, tgCpc, tgYielded,
      agLast, agFallback, agSeconds, aPc, aSteps, aData, aFinal, aChunks,
      aOut, aResp>>

agVars ==
    <<agLast, agFallback, agSeconds, aPc, aSteps, aData, aFinal, aChunks,
      aOut, aResp>>
tgVars ==
    <<tgText, tgMode, tgPc, tgPosted, tgThread, tgQueueMade, tgNrecv, tgRecv,
      tgStart, tgOut, tgReady, tgQueue, tgCpc, tgYielded>>
srcVars == <<srcLines, srcPos, srcOut, srcPc>>
sessVars ==
    <<selfOptions, sOptions, sStartVoice, sWpc, sPos, sBuf, sCount, sPosted,
      sEnq, sReady, sQueue, sCpc, sYielded>>
auxVars == <<srcVars, sessVars, tgVars, agVars>>
tokVars == <<tokShape, tokText, tokIndex, tokResult, tokPc>>
decoderVars == <<buffer, count, lastId, lastIndex, windows, produced>>
bridgeVars == <<enq, ready, queue, cpc, yielded>>
outVars == <<ttsOut, blockingOut>>

\* The state of a stream_tts call before it starts.
CallInit ==
    /\ text = <<>>
    /\ opts = [sample_rate |-> SampleRate, voice |-> <<"m", "i", "a">>]
    /\ posted = None
    /\ ttsOut = None
    /\ blockingOut = None
    /\ wpc = "unstarted"
    /\ nlines = 0
    /\ ntokens = 0
    /\ buffer = <<>>
    /\ count = 0
    /\ lastId = None
    /\ lastIndex = None
    /\ windows = <<>>
    /\ produced = <<>>
    /\ srcError = "none"
    /\ caughtAt = "none"
    /\ enq = <<>>
    /\ ready = <<>>
    /\ queue = <<>>
    /\ cpc = "init"
    /\ yielded = <<>>

\* No call of _turn_token_into_id on its own.
TokOff ==
    /\ tokShape = None
    /\ tokText = <<>>
    /\ tokIndex = 0
    /\ tokResult = None
    /\ tokPc = "off"

\* No run of _generate_tokens_sync on its own.
SrcOff ==
    /\ srcLines = <<>>
    /\ srcPos = 0
    /\ srcOut = <<>>
    /\ srcPc = "off"

\* The calls made on one model instance, and the options of the instance
\* (self.options = options or OrpheusTTSOptions()).
Calls == {1, 2}

DefaultOptions == [sample_rate |-> SampleRate, voice |-> <<"m", "i", "a">>]

\* The instance is constructed and no call has been made on it.
SessInit ==
    /\ selfOptions = DefaultOptions
    /\ sOptions = [c \in Calls |-> None]
    /\ sStartVoice = [c \in Calls |-> <<>>]
    /\ sWpc = [c \in Calls |-> "unstarted"]
    /\ sPos = [c \in Calls |-> 0]
    /\ sBuf = [c \in Calls |-> <<>>]
    /\ sCount = [c \in Calls |-> 0]
    /\ sPosted = [c \in Calls |-> None]
    /\ sEnq = [c \in Calls |-> <<>>]
    /\ sReady = <<>>
    /\ sQueue = [c \in Calls |-> <<>>]
    /\ sCpc = [c \in Calls |-> "idle"]
    /\ sYielded = [c \in Calls |-> <<>>]

\* A TogetherTTS instance on which no call has been made.
TgInit ==
    /\ tgText = <<>>
    /\ tgMode = "none"
    /\ tgPc = "idle"
    /\ tgPosted = None
    /\ tgThread = FALSE
    /\ tgQueueMade = FALSE
    /\ tgNrecv = 0
    /\ tgRecv = 0
    /\ tgStart = 0
    /\ tgOut = <<>>
    /\ tgReady = <<>>
    /\ tgQueue = <<>>
    /\ tgCpc = "idle"
    /\ tgYielded = <<>>

\* sound_effect_seconds: float = 3.0
DefaultSoundEffectSeconds == 3

\* fallback_message: str = "I'm sorry, I couldn't find anything useful in
\* the system."
DefaultFallbackMessage == <<"s", "o", "r", "r", "y">>

\* No step of the agent is being handled.
NoData == [step |-> "none", calls |-> FALSE, messages |-> <<>>]

\* FastRTCAgent.__init__: _last_final_text is not set.
Constructed(sound_effect_seconds) ==
    /\ agLast = None
    /\ agFallback = DefaultFallbackMessage
    /\ agSeconds = sound_effect_seconds
    /\ aPc = [c \in Calls |-> "idle"]
    /\ aSteps = [c \in Calls |-> 0]
    /\ aData = [c \in Calls |-> NoData]
    /\ aFinal = [c \in Calls |-> None]
    /\ aChunks = [c \in Calls |-> 0]
    /\ aOut = [c \in Calls |-> <<>>]
    /\ aResp = [c \in Calls |-> None]

AgInit == Constructed(DefaultSoundEffectSeconds)

AuxOff == SrcOff /\ SessInit /\ TgInit /\ AgInit

Init == CallInit /\ TokOff /\ AuxOff

\* The texts a call is made with: empty, whitespace only, and a word.
Texts == {<<>>, <<" ", " ">>, <<"h", "i">>}

\* ------------------------------------------------------ the collect-all modes
\* An array of samples: its size and the chunks it was put together from.
Array(size, parts) == [raised |-> FALSE, size |-> size, parts |-> parts]

RECURSIVE SumSizes(_)
SumSizes(chunks) ==
    IF chunks = <<>> THEN 0 ELSE chunks[1].size + SumSizes(Tail(chunks))

\* np.concatenate(audio_chunks): ValueError on an empty list.
NpConcatenate(audio_chunks) ==
    IF audio_chunks = <<>>
    THEN [raised |-> TRUE, size |-> 0, parts |-> <<>>]
    ELSE Array(SumSizes(audio_chunks),
               [i \in 1..Len(audio_chunks) |-> audio_chunks[i].count])

\* The chunks concatenated whether there are any or not.
Collect_NoGuard(audio_chunks) == NpConcatenate(audio_chunks)

\* if audio_chunks: audio = np.concatenate(audio_chunks)
\* else: audio = np.zeros(0, dtype=np.int16)
Collect(audio_chunks) ==
    IF audio_chunks # <<>> THEN NpConcatenate(audio_chunks) ELSE Array(0, <<>>)

\* audio_chunks = [chunk] in place of audio_chunks.append(chunk).
AudioChunks_Last(items) ==
    IF items = <<>> THEN <<>> ELSE <<items[Len(items)][2]>>

\* audio_chunks.append(chunk) for each (sample_rate, chunk) of the stream.
AudioChunks(items) == [i \in 1..Len(items) |-> items[i][2]]

\* tts: the async for over stream_tts has ended with these items; what
\* audio.tobytes() is, two bytes for each int16 sample.
Tts(items) ==
    LET audio == Collect(AudioChunks(items))
    IN  [raised |-> audio.raised,
         bytes  |-> BytesPerSample * audio.size,
         parts  |-> audio.parts]

\* tts_blocking: the for loop over stream_tts_sync has ended with these
\* items; return opts.sample_rate, audio
TtsBlocking(items, o) ==
    LET audio == Collect(AudioChunks(items))
    IN  [raised      |-> audio.raised,
         sample_rate |-> o.sample_rate,
         size        |-> audio.size,
         parts       |-> audio.parts]

\* ------------------------------------------------------------ the consumer
\* stream_tts up to its first await: the queue is created and the worker
\* thread started.
ConsumerStart ==
    /\ cpc = "init"
    /\ \E t \in Texts : text' = t
    /\ cpc' = "get"
    /\ wpc' = "request"
    /\ UNCHANGED <<tokVars, auxVars, outVars, posted, opts, nlines, ntokens, decoderVars, srcError, caughtAt,
                   enq, ready, queue, yielded>>

\* A queue that hands out its newest item first.
QueueGet_Lifo(q) == [item |-> q[Len(q)], rest |-> SubSeq(q, 1, Len(q) - 1)]

\* item = await queue.get(): the item taken and what is left.
QueueGet(q) == [item |-> Head(q), rest |-> Tail(q)]

\* if item is None: break
IsSentinel(item) == item = None

\* One turn of the while loop of stream_tts. When the loop breaks, the async
\* for of a tts call that drives it ends and tts returns with no await in
\* between: ttsOut is what it returns.
ConsumerGet ==
    /\ cpc = "get"
    /\ queue # <<>>
    /\ LET got == QueueGet(queue)
       IN  /\ queue' = got.rest
           /\ IF IsSentinel(got.item)
              THEN /\ cpc' = "done"
                   /\ ttsOut' = Some(Tts(yielded))
                   /\ UNCHANGED yielded
              ELSE /\ cpc' = "get"
                   /\ yielded' = Append(yielded, got.item)
                   /\ UNCHANGED ttsOut
    /\ UNCHANGED <<tokVars, auxVars, blockingOut, text, posted, opts, wpc, nlines, ntokens, decoderVars, srcError, caughtAt,
                   enq, ready>>

\* ---------------------------------------------------------- the event loop
\* The loop runs the oldest scheduled queue.put; the queue is unbounded, so
\* the put completes at once.
LoopRunPut ==
    /\ ready # <<>>
    /\ queue' = Append(queue, Head(ready))
    /\ ready' = Tail(ready)
    /\ UNCHANGED <<tokVars, auxVars, outVars, text, posted, opts, wpc, nlines, ntokens, decoderVars, srcError, caughtAt,
                   enq, cpc, yielded>>

\* ------------------------------------------------------------- the worker
\* stream_tts_sync without its except clause.
StreamTtsSyncCatches_Not == FALSE

\* stream_tts_sync: except Exception swallows what the pipeline raises.
StreamTtsSyncCatches == TRUE

\* Where an exception raised by the token source stops: _generate_tokens_sync
\* re-raises it, _token_decoder_sync has no handler, then stream_tts_sync and
\* the worker each have an except Exception.
CatchSite == IF StreamTtsSyncCatches THEN "stream_tts_sync" ELSE "worker"

\* The lines the endpoint may send next.
ResponseLines ==
    {Line("done", <<>>)}
    \cup (IF nlines - count < MaxJunk
          THEN SkippedLines \cup {Line("json", t) : t \in InvalidTexts(count)}
          ELSE {})
    \cup (IF count < MaxTokens
          THEN {Line("json", t) : t \in ValidTexts(count)}
          ELSE {})

\* _format_prompt: f"<|audio|>{voice}: {prompt}<|eot_id|>"
FormatPrompt(prompt, voice) ==
    <<"<|audio|>">> \o voice \o <<":", " ">> \o prompt \o <<"<|eot_id|>">>

\* asyncio.run_coroutine_threadsafe(queue.put(item), loop)
RunCoroutineThreadsafe(item) ==
    /\ ready' = Append(ready, item)
    /\ enq' = Append(enq, item)

\* requests.post and raise_for_status: the stream opens, or a transport
\* error is raised before any line is read.
WorkerRequest ==
    /\ wpc = "request"
    /\ posted' = Some(FormatPrompt(text, opts.voice))
    /\ \E outcome \in {"ok", "connect", "status"} :
          IF outcome = "ok"
          THEN wpc' = "stream" /\ UNCHANGED <<srcError, caughtAt>>
          ELSE wpc' = "finally" /\ srcError' = outcome /\ caughtAt' = CatchSite
    /\ UNCHANGED <<tokVars, auxVars, outVars, text, opts, nlines, ntokens, decoderVars, bridgeVars>>

\* The worker reads one line of the response and runs the pipeline on it:
\* token source, token-ID decoder, frame buffer, audio decoder, and the put
\* of the chunk that stream_tts_sync yields.
WorkerLine ==
    /\ wpc = "stream"
    /\ \E line \in ResponseLines :
          LET tok == LineToken(line)
              index == DecoderIndex(count, ntokens)
              token_id == IF tok = None THEN None ELSE TurnTokenIntoId(tok[1], index)
              step == DecoderStep(buffer, count, token_id)
          IN  /\ nlines' = nlines + 1
              /\ IF tok = None
                 THEN /\ wpc' = IF IsDone(line) THEN "finally" ELSE "stream"
                      /\ UNCHANGED <<ntokens, decoderVars, enq, ready>>
                 ELSE
                   /\ ntokens' = ntokens + 1
                   /\ lastId' = token_id
                   /\ lastIndex' = Some(index)
                   /\ buffer' = step.buffer
                   /\ count' = step.count
                   /\ IF ~step.emit
                      THEN /\ wpc' = "stream"
                           /\ UNCHANGED <<windows, produced, enq, ready>>
                      ELSE \E outcome \in CodecOutcomes :
                             LET buffer_to_process == LastN(step.buffer, WindowSize)
                                 audio_samples ==
                                     ConvertBuffer(buffer_to_process, step.count, outcome)
                                 item == <<opts.sample_rate, audio_samples[1]>>
                             IN  /\ wpc' = IF FrameFaultAborts(outcome)
                                            THEN "finally" ELSE "stream"
                                 /\ windows' = Append(windows,
                                        [multiframe |-> buffer_to_process,
                                         count |-> step.count,
                                         outcome |-> outcome])
                                 /\ IF Emits(audio_samples)
                                    THEN /\ produced' = Append(produced, item)
                                         /\ RunCoroutineThreadsafe(item)
                                    ELSE UNCHANGED <<produced, enq, ready>>
    /\ UNCHANGED <<tokVars, auxVars, outVars, text, posted, opts, srcError, caughtAt, queue, cpc, yielded>>

\* A transport error that ends the thread without running the finally clause.
WorkerStreamFail_NoFinally ==
    /\ wpc = "stream"
    /\ wpc' = "done"
    /\ srcError' = "stream"
    /\ caughtAt' = "worker"
    /\ UNCHANGED <<tokVars, auxVars, outVars, text, posted, opts, nlines, ntokens, decoderVars, bridgeVars>>

\* response.iter_lines() raises a transport error in mid-stream.
WorkerStreamFail ==
    /\ wpc = "stream"
    /\ wpc' = "finally"
    /\ srcError' = "stream"
    /\ caughtAt' = CatchSite
    /\ UNCHANGED <<tokVars, auxVars, outVars, text, posted, opts, nlines, ntokens, decoderVars, bridgeVars>>

\* The response ends without a [DONE] line.
WorkerStreamEnd ==
    /\ wpc = "stream"
    /\ wpc' = "finally"
    /\ UNCHANGED <<tokVars, auxVars, outVars, text, posted, opts, nlines, ntokens, decoderVars, srcError, caughtAt,
                   bridgeVars>>

\* The sentinel put left out, and the sentinel put twice.
FinallyPuts_Missing == <<>>
FinallyPuts_Twice == <<None, None>>

\* The items the finally clause of the worker enqueues.
FinallyPuts == <<None>>

\* What follows the for loop over stream_tts_sync. In worker, the finally
\* clause: asyncio.run_coroutine_threadsafe(queue.put(None), loop). In
\* tts_blocking, which runs the same generator on the calling thread, the
\* return: blockingOut is what it returns for the chunks of this run.
WorkerFinally ==
    /\ wpc = "finally"
    /\ wpc' = "done"
    /\ ready' = ready \o FinallyPuts
    /\ enq' = enq \o FinallyPuts
    /\ blockingOut' = Some(TtsBlocking(produced, opts))
    /\ UNCHANGED <<tokVars, auxVars, ttsOut, text, posted, opts, nlines, ntokens, decoderVars, srcError, caughtAt,
                   queue, cpc, yielded>>

Worker ==
    \/ WorkerRequest
    \/ WorkerLine
    \/ WorkerStreamFail
    \/ WorkerStreamEnd
    \/ WorkerFinally

Next ==
    \/ ConsumerStart
    \/ ConsumerGet
    \/ LoopRunPut
    \/ Worker

Spec == Init /\ [][Next]_vars

\* The worker thread keeps running and the response it reads is finite (it
\* ends, or the request fails or times out); the event loop runs the
\* callbacks scheduled on it; the consumer coroutine is resumed when the
\* queue has an item.
FairSpec ==
    /\ Spec
    /\ WF_vars(WorkerRequest)
    /\ WF_vars(WorkerStreamEnd \/ WorkerStreamFail)
    /\ WF_vars(WorkerFinally)
    /\ WF_vars(LoopRunPut)
    /\ WF_vars(ConsumerStart \/ ConsumerGet)

\* ----------------------------------------- _turn_token_into_id on its own
\* The positions 0..MaxIndex are passed as index.
MaxIndex == 8

callVars ==
    <<text, opts, posted, wpc, nlines, ntokens, buffer, count, lastId,
      lastIndex, windows, produced, srcError, caughtAt, enq, ready, queue,
      cpc, yielded, ttsOut, blockingOut>>

\* The integers whose numeral str(n) is put in a marker.
NumeralSet == {-15, -1, 0, 5, 10, 11, 99, 4106, 4107, 24586, 28683}

\* What stands between the marker prefix and the closing '>': the text, the
\* value Python's int() gives it (None for ValueError) and, when the text was
\* made as str(n), that n.
Body(str, val, n) == [text |-> str, val |-> val, n |-> n]

NumeralBodies == {Body(Str(n), Some(n), Some(n)) : n \in NumeralSet}

OtherBodies ==
    {Body(<<>>, None, None),
     Body(<<"x">>, None, None),
     Body(<<"1", "x">>, None, None),
     Body(<<"1", "_", "2">>, Some(12), None),
     Body(<<"1", "_", "_", "2">>, None, None),
     Body(<<"_", "1">>, None, None),
     Body(<<" ", "7">>, Some(7), None),
     Body(<<"+", "3">>, Some(3), None),
     Body(<<"-">>, None, None),
     Body(<<"1", ".", "5">>, None, None),
     Body(<<"0", "7">>, Some(7), None),
     Body(<<"1", " ", "2">>, None, None)}

\* What follows the body, and whether the stripped text then ends with '>'.
Closes ==
    {[text |-> <<">">>, term |-> TRUE],
     [text |-> <<">", " ">>, term |-> TRUE],
     [text |-> <<>>, term |-> FALSE],
     [text |-> <<">", "x">>, term |-> FALSE]}

\* What precedes the last marker prefix: nothing, stray text, whitespace,
\* an earlier complete marker, an earlier unterminated marker.
Noises ==
    {<<>>,
     <<"h", "i">>,
     <<" ">>,
     Marker(3),
     CUSTOM_TOKEN_PREFIX \o <<"9">>,
     <<"h", "i">> \o Marker(3) \o <<" ">>}

\* Texts in which the marker prefix does not occur.
NoMarkerTexts ==
    {<<>>,
     <<"h", "i">>,
     <<"1", "2", ">">>,
     <<" ">>,
     Tail(CUSTOM_TOKEN_PREFIX) \o <<"5", ">">>,
     SubSeq(CUSTOM_TOKEN_PREFIX, 1, 13) \o <<"5", ">">>,
     <<"<", "C">> \o SubSeq(CUSTOM_TOKEN_PREFIX, 3, 14) \o <<"5", ">">>}

TokenInit ==
    /\ tokIndex \in 0..MaxIndex
    /\ tokResult = None
    /\ tokPc = "called"
    /\ \/ \E t \in NoMarkerTexts :
            /\ tokShape = [kind |-> "nomarker", noise |-> t, body |-> <<>>,
                           val |-> None, n |-> None, close |-> <<>>,
                           term |-> FALSE]
            /\ tokText = t
       \/ \E noise \in Noises, b \in NumeralBodies \cup OtherBodies, c \in Closes :
            /\ tokShape = [kind |-> "marker", noise |-> noise, body |-> b.text,
                           val |-> b.val, n |-> b.n, close |-> c.text,
                           term |-> c.term]
            /\ tokText = noise \o CUSTOM_TOKEN_PREFIX \o b.text \o c.text

\* token_id = self._turn_token_into_id(token_text, count)
TurnTokenCall ==
    /\ tokPc = "called"
    /\ tokResult' = TurnTokenIntoId(tokText, tokIndex)
    /\ tokPc' = "returned"
    /\ UNCHANGED <<callVars, auxVars, tokShape, tokText, tokIndex>>

DecoderInit == CallInit /\ TokenInit /\ AuxOff

DecoderSpec == DecoderInit /\ [][TurnTokenCall]_vars

\* --------------------------------------- _generate_tokens_sync on its own
\* A response has at most MaxLines lines.
MaxLines == 4

\* The lines a response is made of: the lines that are skipped, [DONE], two
\* token lines and a payload that is valid JSON but no object.
SourceLines ==
    SkippedLines
    \cup {Line("done", <<>>), Line("notobject", <<>>),
          Line("json", Marker(11)), Line("json", <<"h", "i">>)}

RECURSIVE Responses(_)
Responses(n) ==
    IF n = 0 THEN {<<>>}
    ELSE LET shorter == Responses(n - 1)
         IN  shorter \cup {Append(r, l) : r \in {x \in shorter : Len(x) = n - 1},
                                          l \in SourceLines}

SrcInit ==
    /\ srcLines \in Responses(MaxLines)
    /\ srcPos = 0
    /\ srcOut = <<>>
    /\ srcPc = "run"

\* One turn of the loop over response.iter_lines().
SourceLine ==
    /\ srcPc = "run"
    /\ srcPos < Len(srcLines)
    /\ LET line == srcLines[srcPos + 1]
           tok == LineToken(line)
       IN  /\ srcPos' = srcPos + 1
           /\ srcPc' = IF LineRaises(line) THEN "raised"
                       ELSE IF IsDone(line) THEN "exhausted"
                       ELSE "run"
           /\ srcOut' = IF LineRaises(line) \/ IsDone(line) \/ tok = None
                        THEN srcOut
                        ELSE Append(srcOut, tok[1])
    /\ UNCHANGED <<callVars, tokVars, agVars, sessVars, tgVars, srcLines>>

\* response.iter_lines() has no more lines.
SourceEnd ==
    /\ srcPc = "run"
    /\ srcPos = Len(srcLines)
    /\ srcPc' = "exhausted"
    /\ UNCHANGED <<callVars, tokVars, agVars, sessVars, tgVars, srcLines, srcPos, srcOut>>

SourceNext == SourceLine \/ SourceEnd

SourceInit == CallInit /\ TokOff /\ SrcInit /\ SessInit /\ TgInit /\ AgInit

SourceSpec == SourceInit /\ [][SourceNext]_vars

\* ------------------------------------- concurrent calls on one instance
\* Each call's response carries SessTokens valid tokens.
SessTokens == 28

\* The options object a call may pass, and the voices set_voice is given.
PassedOptions == [sample_rate |-> 16000, voice |-> <<"l", "e", "o">>]
Voices == {<<"m", "i", "a">>, <<"z", "o", "e">>}

\* The codec symbol of the token a call's endpoint sends at a position:
\* different for the two calls.
SessCode(c, position) == 100 * c + position + 1

\* The token texts of the response to call c.
SessResponse(c) ==
    [i \in 1..SessTokens |-> Marker(Numeral(i - 1, SessCode(c, i - 1)))]

\* One buffer and count, and one queue, kept on the instance for all calls.
StateOf_Shared(c) == 1

\* buffer, count (locals of _token_decoder_sync) and queue (local of
\* stream_tts) are created by each call: the call they belong to.
StateOf(c) == c

\* self.options = options when a call passes options.
DefaultsAfterCall_Stored(defaults, options) ==
    IF options = None THEN defaults ELSE options[1]

\* opts = options or self.options assigns nothing to self.options.
DefaultsAfterCall(defaults, options) == defaults

\* opts = options or self.options: the object opts refers to, read now. A
\* call without options holds a reference to self.options itself.
OptsOf(c) == IF sOptions[c] = None THEN selfOptions ELSE sOptions[c][1]

\* A worker that stops once its consumer is gone.
WorkerMayRun_UntilClosed(consumer) == consumer # "closed"

\* worker() tests nothing about the consumer before it goes on.
WorkerMayRun(consumer) == TRUE

\* The guard of every step of the worker of call c: the thread has started
\* and not ended, and nothing holds it back. The rest of each step is
\* assignments.
SWorkerCanStep(c) ==
    /\ sWpc[c] \in {"request", "stream", "finally"}
    /\ WorkerMayRun(sCpc[c])

\* stream_tts up to its first await, for call c.
SCallStart(c) ==
    /\ sCpc[c] = "idle"
    /\ \E options \in {None, Some(PassedOptions)} :
          /\ sOptions' = [sOptions EXCEPT ![c] = options]
          /\ selfOptions' = DefaultsAfterCall(selfOptions, options)
          /\ sStartVoice' = [sStartVoice EXCEPT ![c] =
                               IF options = None THEN selfOptions.voice
                               ELSE options[1].voice]
    /\ sCpc' = [sCpc EXCEPT ![c] = "get"]
    /\ sWpc' = [sWpc EXCEPT ![c] = "request"]
    /\ UNCHANGED <<callVars, tokVars, agVars, srcVars, tgVars, sPos, sBuf, sCount, sPosted,
                   sEnq, sReady, sQueue, sYielded>>

\* set_voice: self.options.voice = voice, from the calling context.
SetVoice ==
    /\ \E voice \in Voices :
          /\ voice # selfOptions.voice
          /\ selfOptions' = [selfOptions EXCEPT !.voice = voice]
    /\ UNCHANGED <<callVars, tokVars, agVars, srcVars, tgVars, sOptions, sStartVoice, sWpc,
                   sPos, sBuf, sCount, sPosted, sEnq, sReady, sQueue, sCpc,
                   sYielded>>

\* The worker of call c formats the prompt and sends the request.
SWorkerRequest(c) ==
    /\ sWpc[c] = "request"
    /\ SWorkerCanStep(c)
    /\ sPosted' = [sPosted EXCEPT ![c] =
                     Some(FormatPrompt(<<"h", "i">>, OptsOf(c).voice))]
    /\ sWpc' = [sWpc EXCEPT ![c] = "stream"]
    /\ UNCHANGED <<callVars, tokVars, agVars, srcVars, tgVars, selfOptions, sOptions,
                   sStartVoice, sPos, sBuf, sCount, sEnq, sReady, sQueue,
                   sCpc, sYielded>>

\* The worker of call c reads one token and runs the pipeline on it.
SWorkerLine(c) ==
    /\ sWpc[c] = "stream"
    /\ SWorkerCanStep(c)
    /\ sPos[c] < SessTokens
    /\ LET k == StateOf(c)
           index == DecoderIndex(sCount[k], sPos[c])
           token_id == TurnTokenIntoId(SessResponse(c)[sPos[c] + 1], index)
           step == DecoderStep(sBuf[k], sCount[k], token_id)
           buffer_to_process == LastN(step.buffer, WindowSize)
           audio_samples == ConvertBuffer(buffer_to_process, step.count, "pcm")
           item == <<OptsOf(c).sample_rate, audio_samples[1], buffer_to_process>>
       IN  /\ sPos' = [sPos EXCEPT ![c] = @ + 1]
           /\ sBuf' = [sBuf EXCEPT ![k] = step.buffer]
           /\ sCount' = [sCount EXCEPT ![k] = step.count]
           /\ IF step.emit /\ Emits(audio_samples)
              THEN /\ sEnq' = [sEnq EXCEPT ![c] = Append(@, item)]
                   /\ sReady' = Append(sReady, <<c, item>>)
              ELSE UNCHANGED <<sEnq, sReady>>
    /\ UNCHANGED <<callVars, tokVars, agVars, srcVars, tgVars, selfOptions, sOptions,
                   sStartVoice, sWpc, sPosted, sQueue, sCpc, sYielded>>

\* The response of call c has no more lines.
SWorkerEnd(c) ==
    /\ sWpc[c] = "stream"
    /\ SWorkerCanStep(c)
    /\ sPos[c] = SessTokens
    /\ sWpc' = [sWpc EXCEPT ![c] = "finally"]
    /\ UNCHANGED <<callVars, tokVars, agVars, srcVars, tgVars, selfOptions, sOptions,
                   sStartVoice, sPos, sBuf, sCount, sPosted, sEnq, sReady,
                   sQueue, sCpc, sYielded>>

\* finally: asyncio.run_coroutine_threadsafe(queue.put(None), loop)
SWorkerFinally(c) ==
    /\ sWpc[c] = "finally"
    /\ SWorkerCanStep(c)
    /\ sWpc' = [sWpc EXCEPT ![c] = "done"]
    /\ sEnq' = [sEnq EXCEPT ![c] = @ \o FinallyPuts]
    /\ sReady' = sReady \o [i \in 1..Len(FinallyPuts) |-> <<c, FinallyPuts[i]>>]
    /\ UNCHANGED <<callVars, tokVars, agVars, srcVars, tgVars, selfOptions, sOptions,
                   sStartVoice, sPos, sBuf, sCount, sPosted, sQueue, sCpc,
                   sYielded>>

SWorker(c) ==
    \/ SWorkerRequest(c)
    \/ SWorkerLine(c)
    \/ SWorkerEnd(c)
    \/ SWorkerFinally(c)

\* The loop runs the oldest scheduled put, on the queue of the call that
\* scheduled it.
SLoopRunPut ==
    /\ sReady # <<>>
    /\ LET c == Head(sReady)[1]
           item == Head(sReady)[2]
       IN  sQueue' = [sQueue EXCEPT ![StateOf(c)] = Append(@, item)]
    /\ sReady' = Tail(sReady)
    /\ UNCHANGED <<callVars, tokVars, agVars, srcVars, tgVars, selfOptions, sOptions,
                   sStartVoice, sWpc, sPos, sBuf, sCount, sPosted, sEnq, sCpc,
                   sYielded>>

\* One turn of the while loop of stream_tts, for call c.
SConsumerGet(c) ==
    /\ sCpc[c] = "get"
    /\ sQueue[StateOf(c)] # <<>>
    /\ LET got == QueueGet(sQueue[StateOf(c)])
       IN  /\ sQueue' = [sQueue EXCEPT ![StateOf(c)] = got.rest]
           /\ IF IsSentinel(got.item)
              THEN /\ sCpc' = [sCpc EXCEPT ![c] = "done"]
                   /\ UNCHANGED sYielded
              ELSE /\ sYielded' = [sYielded EXCEPT ![c] = Append(@, got.item)]
                   /\ UNCHANGED sCpc
    /\ UNCHANGED <<callVars, tokVars, agVars, srcVars, tgVars, selfOptions, sOptions,
                   sStartVoice, sWpc, sPos, sBuf, sCount, sPosted, sEnq,
                   sReady>>

\* The caller of call c stops iterating and closes the async generator:
\* stream_tts never runs again.
SConsumerClose(c) ==
    /\ sCpc[c] = "get"
    /\ sCpc' = [sCpc EXCEPT ![c] = "closed"]
    /\ UNCHANGED <<callVars, tokVars, agVars, srcVars, tgVars, selfOptions, sOptions,
                   sStartVoice, sWpc, sPos, sBuf, sCount, sPosted, sEnq,
                   sReady, sQueue, sYielded>>

SessNext ==
    \/ SetVoice
    \/ SLoopRunPut
    \/ \E c \in Calls :
          \/ SCallStart(c)
          \/ SWorker(c)
          \/ SConsumerGet(c)
          \/ SConsumerClose(c)

SessionsInit == CallInit /\ TokOff /\ SrcOff /\ SessInit /\ TgInit /\ AgInit

SessionsSpec == SessionsInit /\ [][SessNext]_vars

\* ------------------------------------------------------------ TogetherTTS
\* A response is received in at most MaxRecv byte chunks.
MaxRecv == 3

MIN_CHUNK_SIZE == 1024

\* The sizes of the byte chunks response.iter_bytes() hands out.
ByteSizes == {0, 1, 1023, 1024, 1025}

\* complete_samples * 2 for a buffer of len bytes.
CompleteBytes(len) == (len \div BytesPerSample) * BytesPerSample

\* np.frombuffer(pcm_buffer[:complete_bytes], dtype=np.int16): the bytes of
\* the stream the chunk is made of, from offset `from` up to offset `to`.
PcmChunk(from, to) == [from |-> from, to |-> to]

\* The loop body with pcm_buffer cleared after the yield instead of keeping
\* pcm_buffer[complete_bytes:].
OnBytes_DropRemainder(start, recv, n) ==
    LET len == recv + n - start
    IN  IF n # 0 /\ len >= MIN_CHUNK_SIZE /\ CompleteBytes(len) > 0
        THEN [start |-> start + len,
              chunk |-> Some(PcmChunk(start, start + CompleteBytes(len)))]
        ELSE [start |-> start, chunk |-> None]

\* The body of the loop over response.iter_bytes() for a chunk of n bytes,
\* with pcm_buffer holding the bytes of the stream from start up to recv:
\* where pcm_buffer starts afterwards and the chunk yielded, if any.
OnBytes(start, recv, n) ==
    LET len == recv + n - start
    IN  IF n # 0 /\ len >= MIN_CHUNK_SIZE /\ CompleteBytes(len) > 0
        THEN [start |-> start + CompleteBytes(len),
              chunk |-> Some(PcmChunk(start, start + CompleteBytes(len)))]
        ELSE [start |-> start, chunk |-> None]

\* Flush remaining buffer, after the loop.
OnEnd(start, recv) ==
    LET len == recv - start
    IN  IF len # 0 /\ CompleteBytes(len) > 0
        THEN [start |-> start + CompleteBytes(len),
              chunk |-> Some(PcmChunk(start, start + CompleteBytes(len)))]
        ELSE [start |-> start, chunk |-> None]

\* What follows the end of stream_tts_sync: in stream_tts the worker's
\* finally clause, in a direct call nothing.
TgAfterStream == IF tgMode = "async" THEN "finally" ELSE "ended"

\* yield opts.sample_rate, audio_chunk, and in stream_tts the put of the
\* item the worker schedules for it.
TgYield(chunk) ==
    IF chunk = None
    THEN UNCHANGED <<tgOut, tgReady>>
    ELSE /\ tgOut' = Append(tgOut, <<SampleRate, chunk[1]>>)
         /\ tgReady' = IF tgMode = "async"
                       THEN Append(tgReady, <<SampleRate, chunk[1]>>)
                       ELSE tgReady

\* A call of stream_tts_sync or of stream_tts, up to the request: blank text
\* returns at once; otherwise stream_tts makes the queue and starts the
\* worker, which runs stream_tts_sync.
TgCall ==
    /\ tgMode = "none"
    /\ \E t \in Texts, mode \in {"sync", "async"} :
          /\ tgText' = t
          /\ tgMode' = mode
          /\ IF IsBlank(t)
             THEN /\ tgPc' = IF mode = "sync" THEN "ended" ELSE "idle"
                  /\ tgCpc' = IF mode = "async" THEN "done" ELSE "idle"
                  /\ UNCHANGED <<tgThread, tgQueueMade>>
             ELSE /\ tgPc' = "request"
                  /\ tgCpc' = IF mode = "async" THEN "get" ELSE "idle"
                  /\ tgThread' = (mode = "async")
                  /\ tgQueueMade' = (mode = "async")
    /\ UNCHANGED <<callVars, tokVars, agVars, srcVars, sessVars, tgPosted, tgNrecv,
                   tgRecv, tgStart, tgOut, tgReady, tgQueue, tgYielded>>

\* client.stream("POST", ...) and raise_for_status: the stream opens, or
\* the error is raised, logged and swallowed by stream_tts_sync.
TgRequest ==
    /\ tgPc = "request"
    /\ tgPosted' = Some(Strip(tgText))
    /\ \E ok \in BOOLEAN : tgPc' = IF ok THEN "stream" ELSE TgAfterStream
    /\ UNCHANGED <<callVars, tokVars, agVars, srcVars, sessVars, tgText, tgMode,
                   tgThread, tgQueueMade, tgNrecv, tgRecv, tgStart, tgOut,
                   tgReady, tgQueue, tgCpc, tgYielded>>

\* One turn of the loop over response.iter_bytes().
TgBytes ==
    /\ tgPc = "stream"
    /\ tgNrecv < MaxRecv
    /\ \E n \in ByteSizes :
          LET r == OnBytes(tgStart, tgRecv, n)
          IN  /\ tgNrecv' = tgNrecv + 1
              /\ tgRecv' = tgRecv + n
              /\ tgStart' = r.start
              /\ TgYield(r.chunk)
    /\ UNCHANGED <<callVars, tokVars, agVars, srcVars, sessVars, tgText, tgMode, tgPc,
                   tgPosted, tgThread, tgQueueMade, tgQueue, tgCpc, tgYielded>>

\* The response ends: the remaining buffer is flushed.
TgFlush ==
    /\ tgPc = "stream"
    /\ LET r == OnEnd(tgStart, tgRecv)
       IN  /\ tgStart' = r.start
           /\ TgYield(r.chunk)
    /\ tgPc' = TgAfterStream
    /\ UNCHANGED <<callVars, tokVars, agVars, srcVars, sessVars, tgText, tgMode,
                   tgPosted, tgThread, tgQueueMade, tgNrecv, tgRecv, tgQueue,
                   tgCpc, tgYielded>>

\* iter_bytes raises in mid-stream: logged, re-raised, and swallowed by
\* stream_tts_sync; nothing is flushed.
TgStreamFail ==
    /\ tgPc = "stream"
    /\ tgPc' = TgAfterStream
    /\ UNCHANGED <<callVars, tokVars, agVars, srcVars, sessVars, tgText, tgMode,
                   tgPosted, tgThread, tgQueueMade, tgNrecv, tgRecv, tgStart,
                   tgOut, tgReady, tgQueue, tgCpc, tgYielded>>

\* finally: asyncio.run_coroutine_threadsafe(queue.put(None), loop)
TgWorkerFinally ==
    /\ tgPc = "finally"
    /\ tgPc' = "ended"
    /\ tgReady' = Append(tgReady, None)
    /\ UNCHANGED <<callVars, tokVars, agVars, srcVars, sessVars, tgText, tgMode,
                   tgPosted, tgThread, tgQueueMade, tgNrecv, tgRecv, tgStart,
                   tgOut, tgQueue, tgCpc, tgYielded>>

\* The event loop runs the oldest scheduled put.
TgLoopRunPut ==
    /\ tgReady # <<>>
    /\ tgQueue' = Append(tgQueue, Head(tgReady))
    /\ tgReady' = Tail(tgReady)
    /\ UNCHANGED <<callVars, tokVars, agVars, srcVars, sessVars, tgText, tgMode, tgPc,
                   tgPosted, tgThread, tgQueueMade, tgNrecv, tgRecv, tgStart,
                   tgOut, tgCpc, tgYielded>>

\* One turn of the while loop of stream_tts.
TgConsumerGet ==
    /\ tgCpc = "get"
    /\ tgQueue # <<>>
    /\ LET got == QueueGet(tgQueue)
       IN  /\ tgQueue' = got.rest
           /\ IF IsSentinel(got.item)
              THEN tgCpc' = "done" /\ UNCHANGED tgYielded
              ELSE tgYielded' = Append(tgYielded, got.item) /\ UNCHANGED tgCpc
    /\ UNCHANGED <<callVars, tokVars, agVars, srcVars, sessVars, tgText, tgMode, tgPc,
                   tgPosted, tgThread, tgQueueMade, tgNrecv, tgRecv, tgStart,
                   tgOut, tgReady>>

TogetherNext ==
    \/ TgCall
    \/ TgRequest
    \/ TgBytes
    \/ TgFlush
    \/ TgStreamFail
    \/ TgWorkerFinally
    \/ TgLoopRunPut
    \/ TgConsumerGet

TogetherInit ==
    CallInit /\ TokOff /\ SrcOff /\ SessInit /\ TgInit /\ AgInit

TogetherSpec == TogetherInit /\ [][TogetherNext]_vars

\* ------------------------------------------------------------ FastRTCAgent
\* The agent's update stream of one invocation has at most MaxSteps items.
MaxSteps == 2

\* A synthesis, or the sound effect, yields at most MaxChunks chunks.
MaxChunks == 2

\* tool_use_message: str = "Let me look for that in the system"
ToolUseMessage == <<"w", "a", "i", "t">>

\* The values of sound_effect_seconds the agent is constructed with.
Durations == {0, DefaultSoundEffectSeconds}

\* The content of the first message of a step: None, "" or a text.
Contents == {None, Some(<<>>), Some(<<"y", "e", "s">>)}

Message(content) == [content |-> content]

\* One (step, data) item of a chunk of react_agent.astream(...,
\* stream_mode="updates"): a model step that calls tools, a model step with
\* one message, a model step without messages, a tools step.
Updates ==
    {[step |-> "model", calls |-> TRUE, messages |-> <<Message(Some(<<>>))>>]}
    \cup {[step |-> "model", calls |-> FALSE, messages |-> <<Message(x)>>] :
             x \in Contents}
    \cup {[step |-> "model", calls |-> FALSE, messages |-> <<>>]}
    \cup {[step |-> "tools", calls |-> FALSE,
           messages |-> <<Message(Some(<<"r">>))>>]}

\* model_has_tool_calls(data)
ModelHasToolCalls(data) == data.calls

\* _extract_final_text
ExtractFinalText(model_step_data) ==
    IF Len(model_step_data.messages) > 0
    THEN model_step_data.messages[1].content
    ELSE None

\* The truth value of an Optional[str]: None and "" are false.
Truthy_NotNone(x) == x # None

Truthy(x) == x # None /\ x[1] # <<>>

\* getattr(self, "_last_final_text", None)
GetAttr(attr) == IF attr = None THEN None ELSE attr[1]

\* _get_final_response: the text returned.
GetFinalResponse(last, fallback) ==
    IF Truthy(GetAttr(last)) THEN GetAttr(last)[1] ELSE fallback

\* if self._sound_effect_seconds > 0
EffectEnabled_Always(seconds) == TRUE

EffectEnabled(seconds) == seconds > 0

\* self._last_final_text after "self._last_final_text = final_text".
Stored_OnlyText(final_text, last) ==
    IF Truthy(final_text) THEN Some(final_text) ELSE last

Stored(final_text, last) == Some(final_text)

\* Whether "await self._get_final_response()" gives the event loop the
\* chance to run another task: the coroutine awaits nothing, so it runs to
\* its return without suspending.
GetFinalResponseSuspends_Yes == TRUE

GetFinalResponseSuspends == FALSE

\* An audio chunk _process_audio yields: what it is a chunk of, the number
\* of agent steps read when it was yielded, and the text synthesized.
AudioOf(kind, step, txt) == [kind |-> kind, step |-> step, text |-> txt]

\* _process_audio is called, for the first time or after an invocation that
\* was abandoned: the audio is transcribed and the agent's update stream is
\* opened.
ProcessAudio(c) ==
    /\ aPc[c] \in {"idle", "failed", "closed"}
    /\ aPc' = [aPc EXCEPT ![c] = "agent"]
    /\ UNCHANGED <<callVars, tokVars, srcVars, sessVars, tgVars, agLast,
                   agFallback, agSeconds, aSteps, aData, aFinal, aChunks,
                   aOut, aResp>>

\* The end of the handling of a step: final_text is captured for a model
\* step, and the loop asks the agent for the next update.
FinishStep(c, data) ==
    /\ aFinal' = [aFinal EXCEPT ![c] = IF data.step = "model"
                                       THEN ExtractFinalText(data)
                                       ELSE @]
    /\ aPc' = [aPc EXCEPT ![c] = "agent"]
    /\ aData' = [aData EXCEPT ![c] = NoData]
    /\ aChunks' = [aChunks EXCEPT ![c] = 0]

\* The agent's stream delivers its next (step, data): a model step with
\* tool calls starts the synthesis of the tool-use message, any other step
\* is handled at once.
AgentUpdate(c) ==
    /\ aPc[c] = "agent"
    /\ aSteps[c] < MaxSteps
    /\ aSteps' = [aSteps EXCEPT ![c] = @ + 1]
    /\ \E data \in Updates :
          IF data.step = "model" /\ ModelHasToolCalls(data)
          THEN /\ aPc' = [aPc EXCEPT ![c] = "tool"]
               /\ aData' = [aData EXCEPT ![c] = data]
               /\ aChunks' = [aChunks EXCEPT ![c] = 0]
               /\ UNCHANGED aFinal
          ELSE FinishStep(c, data)
    /\ UNCHANGED <<callVars, tokVars, srcVars, sessVars, tgVars, agLast,
                   agFallback, agSeconds, aOut, aResp>>

\* _synthesize_speech(self._tool_use_message) yields a chunk, which
\* _process_with_agent and _process_audio yield in turn.
ToolChunk(c) ==
    /\ aPc[c] = "tool"
    /\ aChunks[c] < MaxChunks
    /\ aChunks' = [aChunks EXCEPT ![c] = @ + 1]
    /\ aOut' = [aOut EXCEPT
                  ![c] = Append(@, AudioOf("tool", aSteps[c], ToolUseMessage))]
    /\ UNCHANGED <<callVars, tokVars, srcVars, sessVars, tgVars, agLast,
                   agFallback, agSeconds, aPc, aSteps, aData, aFinal, aResp>>

\* The synthesis of the tool-use message is exhausted: the sound effect is
\* started when sound_effect_seconds > 0, otherwise the step is finished.
ToolDone(c) ==
    /\ aPc[c] = "tool"
    /\ IF EffectEnabled(agSeconds)
       THEN /\ aPc' = [aPc EXCEPT ![c] = "effect"]
            /\ aChunks' = [aChunks EXCEPT ![c] = 0]
            /\ UNCHANGED <<aData, aFinal>>
       ELSE FinishStep(c, aData[c])
    /\ UNCHANGED <<callVars, tokVars, srcVars, sessVars, tgVars, agLast,
                   agFallback, agSeconds, aSteps, aOut, aResp>>

\* _play_sound_effect yields a chunk.
EffectChunk(c) ==
    /\ aPc[c] = "effect"
    /\ aChunks[c] < MaxChunks
    /\ aChunks' = [aChunks EXCEPT ![c] = @ + 1]
    /\ aOut' = [aOut EXCEPT
                  ![c] = Append(@, AudioOf("effect", aSteps[c], <<>>))]
    /\ UNCHANGED <<callVars, tokVars, srcVars, sessVars, tgVars, agLast,
                   agFallback, agSeconds, aPc, aSteps, aData, aFinal, aResp>>

\* The sound effect is exhausted.
EffectDone(c) ==
    /\ aPc[c] = "effect"
    /\ FinishStep(c, aData[c])
    /\ UNCHANGED <<callVars, tokVars, srcVars, sessVars, tgVars, agLast,
                   agFallback, agSeconds, aSteps, aOut, aResp>>

\* The agent's stream is exhausted: _process_with_agent stores final_text
\* and ends, _process_audio reads the final response and starts its
\* synthesis when it is not empty. All of it runs without suspending.
AgentExhausted(c) ==
    /\ aPc[c] \in {"agent", "final"}
    /\ agLast' = IF aPc[c] = "agent" THEN Stored(aFinal[c], agLast) ELSE agLast
    /\ IF aPc[c] = "agent" /\ GetFinalResponseSuspends
       THEN /\ aPc' = [aPc EXCEPT ![c] = "final"]
            /\ UNCHANGED <<aResp, aChunks>>
       ELSE LET final_response == GetFinalResponse(agLast', agFallback)
            IN  /\ aResp' = [aResp EXCEPT ![c] = Some(final_response)]
                /\ aPc' = [aPc EXCEPT ![c] = IF final_response # <<>>
                                             THEN "speak"
                                             ELSE "done"]
                /\ aChunks' = [aChunks EXCEPT ![c] = 0]
    /\ UNCHANGED <<callVars, tokVars, srcVars, sessVars, tgVars, agFallback,
                   agSeconds, aSteps, aData, aFinal, aOut>>

\* _synthesize_speech(final_response) yields a chunk.
FinalChunk(c) ==
    /\ aPc[c] = "speak"
    /\ aChunks[c] < MaxChunks
    /\ aChunks' = [aChunks EXCEPT ![c] = @ + 1]
    /\ aOut' = [aOut EXCEPT
                  ![c] = Append(@, AudioOf("final", aSteps[c], aResp[c][1]))]
    /\ UNCHANGED <<callVars, tokVars, srcVars, sessVars, tgVars, agLast,
                   agFallback, agSeconds, aPc, aSteps, aData, aFinal, aResp>>

\* The synthesis of the final response is exhausted: _process_audio ends.
FinalDone(c) ==
    /\ aPc[c] = "speak"
    /\ aPc' = [aPc EXCEPT ![c] = "done"]
    /\ UNCHANGED <<callVars, tokVars, srcVars, sessVars, tgVars, agLast,
                   agFallback, agSeconds, aSteps, aData, aFinal, aChunks,
                   aOut, aResp>>

\* The invocation ends before its final response: its generators and
\* their locals are gone.
Abandon(c, how) ==
    /\ aPc' = [aPc EXCEPT ![c] = how]
    /\ aSteps' = [aSteps EXCEPT ![c] = 0]
    /\ aData' = [aData EXCEPT ![c] = NoData]
    /\ aFinal' = [aFinal EXCEPT ![c] = None]
    /\ aChunks' = [aChunks EXCEPT ![c] = 0]
    /\ aOut' = [aOut EXCEPT ![c] = <<>>]
    /\ aResp' = [aResp EXCEPT ![c] = None]

\* react_agent.astream raises: the exception leaves _process_with_agent
\* before final_text is stored, and leaves _process_audio.
AgentRaises(c) ==
    /\ aPc[c] = "agent"
    /\ Abandon(c, "failed")
    /\ UNCHANGED <<callVars, tokVars, srcVars, sessVars, tgVars, agLast,
                   agFallback, agSeconds>>

\* The caller of the handler stops iterating after a chunk and closes the
\* generators.
HandlerClose(c) ==
    /\ aPc[c] \in {"tool", "effect", "speak"}
    /\ Abandon(c, "closed")
    /\ UNCHANGED <<callVars, tokVars, srcVars, sessVars, tgVars, agLast,
                   agFallback, agSeconds>>

\* One step of invocation c after its start.
Invocation(c) ==
    \/ AgentUpdate(c)
    \/ ToolChunk(c)
    \/ ToolDone(c)
    \/ EffectChunk(c)
    \/ EffectDone(c)
    \/ AgentExhausted(c)
    \/ FinalChunk(c)
    \/ FinalDone(c)
    \/ AgentRaises(c)
    \/ HandlerClose(c)

\* Two invocations on one agent, tasks of one event loop.
AgentNext ==
    \E c \in Calls :
       \/ ProcessAudio(c)
       \/ Invocation(c)

AgentInit == CallInit /\ TokOff /\ AuxOff

AgentSpec == AgentInit /\ [][AgentNext]_vars

\* Turn c starts when every turn before it has ended: the invocations do
\* not overlap.
TurnStart(c) ==
    /\ \A d \in Calls : d < c => aPc[d] = "done"
    /\ ProcessAudio(c)

TurnsNext ==
    \E c \in Calls :
       \/ TurnStart(c)
       \/ Invocation(c)

TurnsInit ==
    /\ CallInit /\ TokOff /\ SrcOff /\ SessInit /\ TgInit
    /\ \E seconds \in Durations : Constructed(seconds)

TurnsSpec == TurnsInit /\ [][TurnsNext]_vars

\* --------------------------------------------------------------- properties
IsPrefix(a, b) == Len(a) <= Len(b) /\ SubSeq(b, 1, Len(a)) = a

SentinelCount(s) == Cardinality({i \in 1..Len(s) : s[i] = None})

IsPcm(w) == w.outcome = "pcm"

\* The counts of the windows that decoded to a non-empty chunk, in order.
DecodedCounts ==
    LET ok == SelectSeq(windows, IsPcm)
    IN  [i \in 1..Len(ok) |-> ok[i].count]

ProducedCounts == [i \in 1..Len(produced) |-> produced[i][2].count]

\* C1: the async generator stream_tts yields exactly the sequence of
\* (sample_rate, chunk) pairs that stream_tts_sync produces on the worker
\* thread, in the same order, under every interleaving of the worker with the
\* event loop: what it has yielded is always a prefix of what was produced,
\* and when it terminates the worker has finished and the two sequences are
\* equal.
C1_BridgeExactOrder ==
    /\ IsPrefix(yielded, produced)
    /\ (cpc = "done" => wpc = "done" /\ yielded = produced)

C1_Witness == cpc = "done" /\ Len(yielded) >= 2 /\ srcError = "none"

\* C2: once the worker thread has been started, the consumer loop of
\* stream_tts eventually receives the sentinel and terminates, whether the
\* synchronous pipeline ends normally or by raising (under fairness of the
\* worker, the event loop and the consumer).
C2_ConsumerTerminates == (wpc # "unstarted") ~> (cpc = "done")

C2_Witness == cpc = "done" /\ wpc = "done" /\ srcError = "connect"

\* C3: the worker enqueues the sentinel exactly once, as the last item it
\* enqueues (nothing is enqueued after it), and once the consumer has
\* dequeued the sentinel it yields nothing more.
C3_SentinelUniqueLast ==
    /\ [](/\ SentinelCount(enq) <= 1
          /\ (SentinelCount(enq) = 1 => enq[Len(enq)] = None)
          /\ (wpc = "done" <=> SentinelCount(enq) = 1)
          /\ (cpc = "done" => SentinelCount(enq) = 1))
    /\ [][SentinelCount(enq) = 1 => enq' = enq]_vars
    /\ [][cpc = "done" => (yielded' = yielded /\ cpc' = "done")]_vars

C3_Witness == cpc = "done" /\ Len(enq) >= 3 /\ SentinelCount(enq) = 1

\* C4: when the token source fails on the worker thread, before or after
\* some chunks, the exception is swallowed on the worker thread and the
\* consumer sees every chunk produced before the failure and then a clean
\* end of stream: once the worker has finished and everything it enqueued
\* has been delivered, stream_tts has terminated having yielded exactly the
\* chunks produced.
C4_AsyncErrorContained ==
    srcError # "none" =>
        /\ caughtAt \in {"stream_tts_sync", "worker"}
        /\ IsPrefix(yielded, produced)
        /\ (wpc = "done" /\ ready = <<>> /\ queue = <<>>
              => cpc = "done" /\ yielded = produced)

C4_Witness == srcError = "stream" /\ cpc = "done" /\ Len(yielded) >= 1

\* C5: when the token source raises after yielding N tokens that were all
\* accepted, one window has been handed to the audio decoder for every
\* multiple of 7 in 28..N, every window that decoded to samples has produced
\* its chunk, and the consumer ends with exactly those chunks; 28 accepted
\* tokens followed by a transport error give exactly one window, and one
\* chunk when the codec decodes it.
C5_FailureIsolation ==
    (srcError # "none" /\ ntokens = count) =>
        /\ Len(windows) = Cardinality({k \in 28..ntokens : k % 7 = 0})
        /\ \A k \in 28..ntokens :
              k % 7 = 0 => \E i \in 1..Len(windows) : windows[i].count = k
        /\ ProducedCounts = DecodedCounts
        /\ (ntokens = 28 =>
              /\ Len(windows) = 1
              /\ (windows[1].outcome = "pcm" => Len(produced) = 1))
        /\ (cpc = "done" => yielded = produced)

C5_Witness ==
    /\ srcError = "stream"
    /\ ntokens = 28
    /\ count = 28
    /\ Len(produced) = 1
    /\ cpc = "done"
    /\ Len(yielded) = 1

C7_WindowTrigger ==
    /\ [](count < 28 => windows = <<>>)
    /\ [][/\ Len(windows') \in {Len(windows), Len(windows) + 1}
          /\ (Len(windows') = Len(windows) + 1
                <=> (count' = count + 1 /\ count' > 27 /\ count' % 7 = 0))
          /\ (Len(windows') = Len(windows) + 1 =>
                /\ SubSeq(windows', 1, Len(windows)) = windows
                /\ windows'[Len(windows')].count = count'
                /\ windows'[Len(windows')].multiframe
                     = SubSeq(buffer', Len(buffer') - 27, Len(buffer')))]_vars

C7_Witness == count = 35 /\ Len(windows) = 2 /\ ntokens > count

\* C8: when L token IDs have been accepted, the number of windows handed to
\* the audio decoder is max(0, floor((L - 21) / 7)), zero for L <= 27,
\* however many invalid tokens are interleaved.
C8_WindowCount ==
    /\ Len(windows) = (IF count < 21 THEN 0 ELSE (count - 21) \div 7)
    /\ (count <= 27 => Len(windows) = 0)

C8_Witness == count = 42 /\ Len(windows) = 3 /\ ntokens = count + 2

\* C9: every window has exactly 28 token IDs, and of two consecutive windows
\* the last 21 IDs of the earlier are the first 21 IDs of the later, whose
\* last 7 IDs are the 7 IDs accepted since.
C9_WindowOverlap ==
    /\ \A i \in 1..Len(windows) : Len(windows[i].multiframe) = 28
    /\ \A i \in 1..(Len(windows) - 1) :
          /\ SubSeq(windows[i].multiframe, 8, 28)
               = SubSeq(windows[i + 1].multiframe, 1, 21)
          /\ SubSeq(windows[i + 1].multiframe, 22, 28)
               = SubSeq(buffer, windows[i].count + 1, windows[i].count + 7)

C9_Witness == Len(windows) = 3 /\ Len(buffer) = 42

\* C10: a token whose decoded ID is None, zero or negative leaves the buffer
\* and the accepted count unchanged and hands no window to the audio
\* decoder, also when the accepted count is a multiple of 7 above 27.
C10_InvalidInert ==
    [][(ntokens' = ntokens + 1 /\ (lastId' = None \/ lastId'[1] <= 0)) =>
          /\ buffer' = buffer
          /\ count' = count
          /\ windows' = windows
          /\ produced' = produced
          /\ enq' = enq]_vars

C10_Witness ==
    /\ count = 28
    /\ ntokens = 30
    /\ lastId # None
    /\ lastId[1] <= 0
    /\ Len(windows) = 1

\* C11: for every integer n and every position p >= 0,
\* _turn_token_into_id("<custom_token_" + str(n) + ">", p) returns
\* n - 10 - (p mod 7) * 4096.
C11_DecoderFormula ==
    (/\ tokPc = "returned"
     /\ tokShape.kind = "marker"
     /\ tokShape.n # None
     /\ tokShape.noise = <<>>
     /\ tokShape.close = <<">">>)
    => tokResult = Some(tokShape.n[1] - 10 - (tokIndex % 7) * 4096)

C11_Witness ==
    /\ tokPc = "returned"
    /\ tokShape.kind = "marker"
    /\ tokShape.n = Some(4107)
    /\ tokShape.noise = <<>>
    /\ tokShape.close = <<">">>
    /\ tokIndex = 8
    /\ tokResult = Some(1)

\* C12: _turn_token_into_id returns None when the text holds no marker
\* prefix, when the text after the last marker prefix does not end with '>',
\* and when what stands between the prefix and the closing '>' is not a
\* parseable integer; it always returns (None or an integer).
C12_DecoderRejects ==
    tokPc = "returned" =>
        /\ (tokShape.kind = "nomarker" => tokResult = None)
        /\ (tokShape.kind = "marker" /\ ~tokShape.term => tokResult = None)
        /\ (tokShape.kind = "marker" /\ tokShape.val = None => tokResult = None)
        /\ (tokResult = None \/ (Len(tokResult) = 1 /\ tokResult[1] \in Int))

C12_Witness ==
    /\ tokPc = "returned"
    /\ tokShape.kind = "marker"
    /\ ~tokShape.term
    /\ tokShape.close = <<>>
    /\ tokShape.n = Some(4107)
    /\ tokResult = None

\* C13: when a fragment holds stray text or earlier marker prefixes before
\* its last marker prefix, _turn_token_into_id decodes the numeral of the
\* last marker only: the result is the one the last marker alone gives,
\* whatever precedes it.
C13_LastMarkerWins ==
    (tokPc = "returned" /\ tokShape.kind = "marker") =>
        tokResult =
            (IF tokShape.term /\ tokShape.val # None
             THEN Some(tokShape.val[1] - 10 - (tokIndex % 7) * 4096)
             ELSE None)

C13_Witness ==
    /\ tokPc = "returned"
    /\ tokShape.kind = "marker"
    /\ tokShape.noise = <<"h", "i">> \o Marker(3) \o <<" ">>
    /\ tokShape.n = Some(24586)
    /\ tokShape.term
    /\ tokIndex = 6
    /\ tokResult = Some(0)

\* C14: the position passed to _turn_token_into_id for a token is the number
\* of tokens accepted before it in the session, not its offset in the token
\* stream, so a rejected token does not advance the position of the next.
C14_PositionIsAcceptedCount ==
    /\ [][ntokens' = ntokens + 1 => lastIndex' = Some(count)]_vars
    /\ [](lastIndex # None =>
            lastIndex[1] = (IF lastId # None /\ lastId[1] > 0
                            THEN count - 1 ELSE count))

C14_Witness ==
    /\ count = 8
    /\ ntokens = 10
    /\ lastIndex = Some(7)
    /\ lastId = Some(8)

\* C15: in every state of a session the accepted count is the length of the
\* buffer, the count never decreases, and the buffer only grows at its end:
\* no element once appended is removed or changed.
C15_BufferAppendOnly ==
    /\ [](count = Len(buffer))
    /\ [][count' >= count /\ IsPrefix(buffer, buffer')]_vars

C15_Witness == count = 36 /\ Len(buffer) = 36 /\ Len(windows) = 2

\* C16: a window whose decode gives None or zero samples never becomes a
\* chunk: every chunk yielded by stream_tts_sync and by stream_tts is not
\* None and has at least one sample, and only windows decoded to samples
\* have a chunk.
C16_NoEmptyChunks ==
    /\ \A i \in 1..Len(produced) :
          produced[i] # None /\ produced[i][2].size > 0
    /\ \A i \in 1..Len(yielded) :
          yielded[i] # None /\ yielded[i][2].size > 0
    /\ \A i \in 1..Len(windows) :
          windows[i].outcome # "pcm" =>
              \A j \in 1..Len(produced) : produced[j][2].count # windows[i].count

C16_Witness ==
    /\ Len(windows) = 3
    /\ windows[1].outcome = "empty"
    /\ windows[2].outcome = "none"
    /\ windows[3].outcome = "pcm"
    /\ cpc = "done"
    /\ Len(yielded) = 1

\* C17: when the codec raises or returns None on a window, that window
\* alone gives no chunk, the buffer and the accepted count advance as for
\* any accepted token, the pipeline goes on, and every other window is cut
\* and its chunk emitted in order.
C17_FrameFaultContained ==
    /\ [](ProducedCounts = DecodedCounts)
    /\ [](\A i \in 1..Len(windows) : windows[i].count = 21 + 7 * i)
    /\ [][(/\ Len(windows') = Len(windows) + 1
           /\ windows'[Len(windows')].outcome # "pcm") =>
              /\ produced' = produced
              /\ buffer' = Append(buffer, lastId'[1])
              /\ count' = count + 1
              /\ wpc' = "stream"]_vars

C17_Witness ==
    /\ Len(windows) = 3
    /\ windows[1].outcome = "pcm"
    /\ windows[2].outcome = "raise"
    /\ windows[3].outcome = "pcm"
    /\ ProducedCounts = <<28, 42>>
    /\ cpc = "done"
    /\ yielded = produced

\* C18 as stated: a call with empty or whitespace-only text makes no request
\* to the token-generation endpoint and reads nothing from it.
C18_Original ==
    (cpc # "init" /\ IsBlank(text)) => (posted = None /\ nlines = 0)

\* C19 as stated: a call with empty or whitespace-only text yields no chunk
\* from stream_tts_sync and none from stream_tts.
C19_Original ==
    (cpc # "init" /\ IsBlank(text)) => (produced = <<>> /\ yielded = <<>>)

\* C20: when a synthesis has given zero chunks, tts returns a byte buffer of
\* length zero and tts_blocking returns the configured sample rate with an
\* array of length zero; neither raises, whatever the number of chunks.
C20_CollectAllEmpty ==
    /\ ttsOut # None =>
          /\ ~ttsOut[1].raised
          /\ yielded = <<>> => ttsOut[1].bytes = 0 /\ ttsOut[1].parts = <<>>
    /\ blockingOut # None =>
          /\ ~blockingOut[1].raised
          /\ blockingOut[1].sample_rate = SampleRate
          /\ produced = <<>> =>
                blockingOut[1].size = 0 /\ blockingOut[1].parts = <<>>

C20_Witness ==
    /\ Len(windows) = 3
    /\ \A i \in 1..3 : windows[i].outcome \in {"raise", "none", "empty"}
    /\ produced = <<>>
    /\ ttsOut # None
    /\ blockingOut # None

\* The samples held by the chunks of these items, and the chunks' counts.
RECURSIVE TotalSize(_)
TotalSize(items) ==
    IF items = <<>> THEN 0 ELSE items[1][2].size + TotalSize(Tail(items))

ItemCounts(items) == [i \in 1..Len(items) |-> items[i][2].count]

\* C21: what tts_blocking returns is the concatenation, in order, of exactly
\* the chunks stream_tts_sync yielded; the bytes tts returns are the
\* concatenation, in order, of exactly the chunks stream_tts yielded; and for
\* the same token stream and codec results the two hold the same samples.
C21_CollectEqualsStream ==
    /\ blockingOut # None =>
          /\ blockingOut[1].parts = ItemCounts(produced)
          /\ blockingOut[1].size = TotalSize(produced)
    /\ ttsOut # None =>
          /\ ttsOut[1].parts = ItemCounts(yielded)
          /\ ttsOut[1].bytes = BytesPerSample * TotalSize(yielded)
    /\ (blockingOut # None /\ ttsOut # None) =>
          /\ ttsOut[1].parts = blockingOut[1].parts
          /\ ttsOut[1].bytes = BytesPerSample * blockingOut[1].size

C21_Witness ==
    /\ ttsOut # None
    /\ blockingOut # None
    /\ ttsOut[1].parts = <<28, 35, 42>>
    /\ blockingOut[1].size = 3 * WindowSize

\* C24 as stated: the worker does not produce the next chunk before the put
\* of the previous one has run on the event loop, so at most one chunk is
\* scheduled on the loop and not yet put.
C24_Original ==
    Cardinality({i \in 1..Len(ready) : ready[i] # None}) <= 1

\* C29: every call of the codec gets as count the accepted count at the
\* time the window is cut: a multiple of 7, at least 28, and 7 more than the
\* count of the call before it.
C29_CodecCount ==
    /\ [](\A i \in 1..Len(windows) :
            /\ windows[i].count % Stride = 0
            /\ windows[i].count >= WindowSize
            /\ i > 1 => windows[i].count = windows[i - 1].count + Stride)
    /\ [][Len(windows') = Len(windows) + 1 =>
            /\ count' = count + 1
            /\ windows'[Len(windows')].count = count']_vars

C29_Witness ==
    /\ Len(windows) = 3
    /\ windows[1].count = 28
    /\ windows[2].outcome = "none"
    /\ windows[3].count = 42

\* A line that carries a token, and a line of one of the kinds that are
\* skipped: empty, without "data: ", not JSON, without choices, empty text.
WellFormed(line) == line.kind = "json" /\ line.text # <<>>
Malformed(line) == line.kind \in {"blank", "nodata", "badjson", "nochoices"}
                   \/ (line.kind = "json" /\ line.text = <<>>)

\* The texts of the well-formed lines among these, in order.
TokensOf(ls) ==
    LET ok == SelectSeq(ls, WellFormed)
    IN  [i \in 1..Len(ok) |-> ok[i].text]

C28_DoneEndsStream ==
    \A i \in 1..srcPos :
        srcLines[i].kind = "done" =>
            /\ srcPos = i
            /\ srcPc = "exhausted"
            /\ srcOut = TokensOf(SubSeq(srcLines, 1, i - 1))

C28_Witness ==
    /\ srcLines = <<Line("json", Marker(11)), Line("done", <<>>),
                    Line("json", <<"h", "i">>)>>
    /\ srcPc = "exhausted"
    /\ srcPos = 2
    /\ srcOut = <<Marker(11)>>

\* What call c yields when it runs alone: one chunk for each accepted count
\* 28, 35, ... up to the length of its response, cut from its own tokens.
AloneChunks(c) ==
    [i \in 1..((SessTokens - WindowSize) \div Stride + 1) |->
        [count |-> WindowSize + Stride * (i - 1),
         multiframe |-> [j \in 1..WindowSize |->
                           SessCode(c, Stride * (i - 1) + j - 1)]]]

\* The chunks among these items, as count and window.
ChunksOf(items) ==
    LET chunks == SelectSeq(items, LAMBDA x : x # None)
    IN  [i \in 1..Len(chunks) |->
            [count |-> chunks[i][2].count, multiframe |-> chunks[i][3]]]

\* C22: with two calls running concurrently on one instance, each call's
\* buffer and count start empty and at 0 and hold its own tokens only, and
\* what each call yields is what it yields when run alone: chunks cut from
\* its own token stream, all of them once the call has ended.
C22_NoCrossCall ==
    \A c \in Calls :
        /\ sCount[c] = sPos[c]
        /\ sBuf[c] = [i \in 1..sPos[c] |-> SessCode(c, i - 1)]
        /\ IsPrefix(ChunksOf(sQueue[c]), AloneChunks(c))
        /\ IsPrefix(ChunksOf(sYielded[c]), AloneChunks(c))
        /\ sCpc[c] = "done" => ChunksOf(sYielded[c]) = AloneChunks(c)

C22_Witness ==
    /\ sCpc[1] = "get"
    /\ Len(sYielded[1]) = 1
    /\ sWpc[2] = "stream"
    /\ sPos[2] = 20

\* C23 as stated: a set_voice made by the calling context while a call is
\* in flight does not change the voice the call's worker reads: the prompt
\* sent carries the voice the call's options had when the call started.
C23_Original ==
    \A c \in Calls :
        sPosted[c] # None =>
            sPosted[c][1] = FormatPrompt(<<"h", "i">>, sStartVoice[c])

\* C25: whatever the consumer of a call has done, closing the generator
\* included, the call's worker is never blocked before it is done, and when
\* it is done it has enqueued every chunk of the call and the sentinel.
C25_NoCancellation ==
    \A c \in Calls :
        /\ sWpc[c] \in {"request", "stream", "finally"} => SWorkerCanStep(c)
        /\ sWpc[c] = "done" =>
              /\ ChunksOf(sEnq[c]) = AloneChunks(c)
              /\ sEnq[c][Len(sEnq[c])] = None

C25_Witness ==
    /\ sCpc[1] = "closed"
    /\ sYielded[1] = <<>>
    /\ sWpc[1] = "done"
    /\ Len(sEnq[1]) = 2

\* C27: a call that passes options pairs every chunk with the sample rate
\* of the passed options and sends their voice; the options of the instance
\* are not changed by it, so a call without options pairs every chunk with
\* the default sample rate.
C27_OptionsOverride ==
    /\ selfOptions.sample_rate = SampleRate
    /\ selfOptions.voice \in Voices
    /\ \A c \in Calls :
          /\ \A i \in 1..Len(sEnq[c]) :
                sEnq[c][i] # None =>
                    sEnq[c][i][1] = (IF sOptions[c] # None
                                     THEN PassedOptions.sample_rate
                                     ELSE SampleRate)
          /\ (sPosted[c] # None /\ sOptions[c] # None) =>
                sPosted[c][1] = FormatPrompt(<<"h", "i">>, PassedOptions.voice)

C27_Witness ==
    /\ sOptions[1] # None
    /\ sOptions[2] = None
    /\ sCpc[1] = "done"
    /\ sCpc[2] = "done"
    /\ sYielded[1][1][1] = PassedOptions.sample_rate
    /\ sYielded[2][1][1] = SampleRate

\* C30: a call of TogetherTTS.stream_tts_sync or stream_tts with a text that
\* is empty or made of whitespace only has finished with no chunk, has sent
\* no request, and (stream_tts) has started no thread and made no queue.
C30_TogetherEmptyInput ==
    (tgMode # "none" /\ \A i \in 1..Len(tgText) : tgText[i] \in Whitespace) =>
        /\ tgPosted = None
        /\ tgOut = <<>>
        /\ tgYielded = <<>>
        /\ ~tgThread
        /\ ~tgQueueMade
        /\ tgMode = "sync" => tgPc = "ended"
        /\ tgMode = "async" => tgCpc = "done" /\ tgPc = "idle"

C30_Witness ==
    /\ tgText = <<" ", " ">>
    /\ tgMode = "async"
    /\ tgCpc = "done"
    /\ ~tgThread

\* The byte ranges of the chunks _stream_audio_sync has yielded, in order.
TgRanges == [i \in 1..Len(tgOut) |-> tgOut[i][2]]

\* The ranges follow one another from offset `from` up to offset `to` with
\* no gap and no overlap.
Contiguous(ranges, from, to) ==
    /\ \A i \in 1..Len(ranges) :
          ranges[i].from = (IF i = 1 THEN from ELSE ranges[i - 1].to)
    /\ to = (IF ranges = <<>> THEN from ELSE ranges[Len(ranges)].to)

\* C31: however the response is split into byte chunks (odd sizes and empty
\* chunks included), every chunk TogetherTTS emits holds a whole, positive
\* number of 2-byte samples; the emitted chunks are, in order and without gap
\* or overlap, the bytes of the stream from offset 0 up to where the buffer
\* starts, so that the bytes received are the emitted chunks followed by
\* the buffer; a chunk is emitted in mid-stream only when the buffer holds
\* at least MIN_CHUNK_SIZE (1024) bytes, and leaves less than one sample in
\* it; and when the response ends normally the flush leaves at most one byte
\* unemitted, exactly when the stream has an odd number of bytes.
C31_RechunkPreservesStream ==
    /\ [](/\ \A i \in 1..Len(tgOut) :
                /\ tgOut[i][2].to > tgOut[i][2].from
                /\ (tgOut[i][2].to - tgOut[i][2].from) % BytesPerSample = 0
          /\ Contiguous(TgRanges, 0, tgStart)
          /\ tgStart <= tgRecv)
    /\ [][(tgPc = "stream" /\ tgPc' = "stream" /\ tgOut' # tgOut) =>
             /\ tgRecv' - tgStart >= MIN_CHUNK_SIZE
             /\ tgRecv' - tgStart' < BytesPerSample]_vars
    /\ [][TgFlush =>
             /\ tgRecv' - tgStart' = tgRecv' % BytesPerSample
             /\ tgRecv' = tgRecv]_vars

\* Chunks of 1023, 1 and 1025 bytes: two chunks of 1024 bytes are emitted in
\* mid-stream and the last, odd byte is dropped at the end.
C31_Witness ==
    /\ tgPc = "ended"
    /\ tgMode = "sync"
    /\ tgRecv = 2049
    /\ TgRanges = <<PcmChunk(0, 1024), PcmChunk(1024, 2048)>>

\* The kinds, and the step numbers, of the chunks invocation c has yielded.
KindsOf(c) == [i \in 1..Len(aOut[c]) |-> aOut[c][i].kind]

StepsOf(c) == [i \in 1..Len(aOut[c]) |-> aOut[c][i].step]

\* C32: in the audio one _process_audio invocation yields, the chunks come
\* in the order of the agent's steps; within a step the chunks of the
\* tool-use message come before the chunks of the sound effect; tool-use and
\* effect chunks are yielded only while a model step with tool calls is
\* being handled, and effect chunks only when sound_effect_seconds > 0; the
\* chunks of the final response are yielded only after the agent's update
\* stream is exhausted and the final response read, and once the stream is
\* exhausted no tool-use or effect chunk is yielded any more, so that no
\* final-response chunk precedes a tool-use or effect chunk.
C32_ReplyOrdering ==
    /\ [](\A c \in Calls :
            /\ \A i, j \in 1..Len(aOut[c]) :
                  i < j =>
                      /\ aOut[c][i].step <= aOut[c][j].step
                      /\ aOut[c][i].kind = "final" => aOut[c][j].kind = "final"
                      /\ (aOut[c][i].step = aOut[c][j].step
                          /\ aOut[c][i].kind = "effect")
                            => aOut[c][j].kind # "tool"
            /\ \A i \in 1..Len(aOut[c]) :
                  /\ aOut[c][i].kind = "tool" =>
                        aOut[c][i].text = ToolUseMessage
                  /\ aOut[c][i].kind = "effect" => agSeconds > 0
                  /\ aOut[c][i].kind = "final" =>
                        /\ aPc[c] \in {"speak", "done"}
                        /\ aResp[c] = Some(aOut[c][i].text))
    /\ [][\A c \in Calls :
            Len(aOut'[c]) > Len(aOut[c]) =>
                LET chunk == aOut'[c][Len(aOut'[c])]
                IN  /\ aOut'[c] = Append(aOut[c], chunk)
                    /\ chunk.kind \in {"tool", "effect"} =>
                          /\ aData[c].step = "model"
                          /\ aData[c].calls
                          /\ chunk.step = aSteps[c]
                          /\ aResp[c] = None
                    /\ chunk.kind = "final" =>
                          /\ aPc[c] = "speak"
                          /\ aData[c] = NoData]_vars
    /\ [][\A c \in Calls :
            (aPc[c] \in {"speak", "done"} /\ aPc'[c] \in {"speak", "done"}) =>
                /\ aSteps'[c] = aSteps[c]
                /\ aResp'[c] = aResp[c]]_vars

\* Two steps with tool calls, each with its tool-use message and its
\* effect, then the final response.
C32_Witness ==
    /\ aPc[1] = "done"
    /\ KindsOf(1) = <<"tool", "tool", "effect", "tool", "effect", "effect",
                      "final", "final">>
    /\ StepsOf(1) = <<1, 1, 1, 2, 2, 2, 2, 2>>

\* C33: once an invocation has read its final response, the response is
\* the fallback message when final_text of its agent run is None or empty
\* (no model step, or a last model step without text), and is final_text
\* when that is a non-empty text; the final response is synthesized exactly
\* when it is not empty, and every final-response chunk is a chunk of it.
C33_AgentFallback ==
    \A c \in Calls :
        /\ aPc[c] \in {"speak", "done"} <=> aResp[c] # None
        /\ aResp[c] # None =>
              /\ (aFinal[c] = None \/ aFinal[c] = Some(<<>>))
                    => aResp[c] = Some(agFallback)
              /\ (aFinal[c] # None /\ aFinal[c] # Some(<<>>))
                    => aResp[c] = aFinal[c]
              /\ \A i \in 1..Len(aOut[c]) :
                    aOut[c][i].kind = "final" =>
                        aOut[c][i].text = aResp[c][1]
              /\ (aResp[c] = Some(<<>>) => "final" \notin
                                             {aOut[c][i].kind :
                                                 i \in 1..Len(aOut[c])})

\* The last model step has an empty text, and the fallback message is
\* spoken.
C33_Witness ==
    /\ aPc[1] = "done"
    /\ aSteps[1] = 2
    /\ aFinal[1] = Some(<<>>)
    /\ KindsOf(1) = <<"tool", "final", "final">>
    /\ aOut[1][3].text = DefaultFallbackMessage

\* The final text of the agent run of invocation c, or the fallback.
OwnFinal(c) ==
    IF aFinal[c] # None /\ aFinal[c][1] # <<>>
    THEN aFinal[c][1]
    ELSE agFallback

\* C34: when two invocations run on one agent as tasks of one event loop,
\* each speaks the final text of its own agent run, or the fallback when
\* its run has none, whatever the other has stored in _last_final_text: the
\* store and the read of one invocation happen without a suspension between
\* them.
C34_OwnFinalResponse ==
    /\ [](\A c \in Calls :
            /\ aResp[c] # None => aResp[c][1] = OwnFinal(c)
            /\ \A i \in 1..Len(aOut[c]) :
                  aOut[c][i].kind = "final" => aOut[c][i].text = OwnFinal(c))
    /\ [][\A c \in Calls :
            (aResp[c] = None /\ aResp'[c] # None) =>
                /\ agLast' = Some(aFinal[c])
                /\ aFinal'[c] = aFinal[c]]_vars

\* Both invocations are speaking their final responses: the first the text
\* of its run, the second, whose run had no text, the fallback, although
\* _last_final_text holds the text the first stored after it.
C34_Witness ==
    /\ aPc[1] = "speak"
    /\ aPc[2] = "speak"
    /\ aFinal[1] = Some(<<"y", "e", "s">>)
    /\ aFinal[2] = None
    /\ agLast = Some(aFinal[1])
    /\ aOut[1] # <<>>
    /\ aOut[1][Len(aOut[1])].text = <<"y", "e", "s">>
    /\ aOut[2] # <<>>
    /\ aOut[2][Len(aOut[2])].text = DefaultFallbackMessage

\* C35: when the invocations do not overlap, every invocation that reaches
\* its final response has stored its own final_text in _last_final_text,
\* replacing what the turn before left there, and speaks the fallback when
\* its own run has no final text, even if the turn before had one.
C35_NoStaleFinalResponse ==
    /\ [](/\ Cardinality({c \in Calls :
                             aPc[c] \notin {"idle", "done", "failed",
                                            "closed"}}) <= 1
          /\ \A c \in Calls :
                (aResp[c] # None
                 /\ (aFinal[c] = None \/ aFinal[c] = Some(<<>>)))
                    => /\ aResp[c] = Some(agFallback)
                       /\ \A d \in Calls \ {c} :
                             (aFinal[d] # None /\ aFinal[d] # Some(<<>>))
                                => aResp[c] # aFinal[d])
    /\ [][\A c \in Calls :
            (aPc[c] = "agent" /\ aPc'[c] \in {"speak", "done"}) =>
                /\ agLast' = Some(aFinal[c])
                /\ aResp'[c] = Some(IF aFinal[c] # None /\ aFinal[c][1] # <<>>
                                    THEN aFinal[c][1]
                                    ELSE agFallback)]_vars

\* The first turn ended with a final text, the second without one, and the
\* second spoke the fallback.
C35_Witness ==
    /\ aPc[1] = "done"
    /\ aFinal[1] = Some(<<"y", "e", "s">>)
    /\ aOut[1] # <<>>
    /\ aOut[1][Len(aOut[1])].text = <<"y", "e", "s">>
    /\ aPc[2] = "done"
    /\ aFinal[2] = None
    /\ aSteps[2] = 2
    /\ agLast = Some(None)
    /\ aOut[2] # <<>>
    /\ aOut[2][Len(aOut[2])].text = DefaultFallbackMessage

====
